---- MODULE Spec2Model ----
(***************************************************************************)
(* The query-to-report pipeline of PEResearchEngine (src/research_engine.py)*)
(* and the text-extraction helper it calls (src/web_scraper.py).            *)
(*                                                                         *)
(* Python strings are TLA+ strings; Len, SubSeq and \o act on them          *)
(* character by character.  Python values whose type the code does not fix  *)
(* (the provider's info fields) are tagged records, see None, Str, PyInt,   *)
(* PyFloat and Obj.  A call that can raise yields Ok(v) or Raise(msg);      *)
(* try/except is the case split on it.                                      *)
(***************************************************************************)
EXTENDS Integers, Sequences, FiniteSets, TLC

VARIABLES
    query,                \* analyze_company's argument query
    chat_history,         \* analyze_company's argument chat_history
    pc,                   \* position of the call inside analyze_company
    company_name,         \* local company_name (identifier from extract_company_name)
    is_followup,          \* local is_followup
    financial_data,       \* local financial_data (a profile)
    web_content,          \* local web_content
    competitor_analysis,  \* local competitor_analysis
    formatted_financials, \* local of generate_structured_analysis, <<>> until computed
    ai_analysis,          \* local ai_analysis
    error,                \* <<>>, or <<str(e)>> once the outer except clause caught e
    result,               \* <<>>, or <<the returned string>> once the call returned
    calls,                \* the collaborators' calls so far, with what each answered
    runs,                 \* calls of analyze_company completed on this engine instance
    prev                  \* <<>>, or <<[calls, result]>> of the previous call

vars == <<query, chat_history, pc, company_name, is_followup, financial_data,
          web_content, competitor_analysis, formatted_financials, ai_analysis,
          error, result, calls, runs, prev>>

(***************************************************************************)
(* Bounds of the model.                                                    *)
(***************************************************************************)
MaxHistory == 1     \* chat_history holds 0..MaxHistory prior turns
MaxRuns == 2        \* analyze_company is called at most MaxRuns times (SpecTwice)

(***************************************************************************)
(* Strings.                                                                *)
(***************************************************************************)
Min(S) == CHOOSE x \in S : \A y \in S : x <= y
Max(S) == CHOOSE x \in S : \A y \in S : x >= y

Ch(s, i) == SubSeq(s, i, i)

UpperAlpha == "ABCDEFGHIJKLMNOPQRSTUVWXYZ"
LowerAlpha == "abcdefghijklmnopqrstuvwxyz"
AlnumChars == "ABCDEFGHIJKLMNOPQRSTUVWXYZabcdefghijklmnopqrstuvwxyz0123456789"

\* c, or its counterpart in to when c occurs in from
Translate(c, from, to) ==
    IF \E i \in 1..Len(from) : Ch(from, i) = c
    THEN Ch(to, CHOOSE i \in 1..Len(from) : Ch(from, i) = c)
    ELSE c

\* str.lower()
RECURSIVE Lower(_)
Lower(s) ==
    IF s = "" THEN ""
    ELSE Translate(Ch(s, 1), UpperAlpha, LowerAlpha) \o Lower(SubSeq(s, 2, Len(s)))

\* str.upper()
RECURSIVE Upper(_)
Upper(s) ==
    IF s = "" THEN ""
    ELSE Translate(Ch(s, 1), LowerAlpha, UpperAlpha) \o Upper(SubSeq(s, 2, Len(s)))

\* str.replace(' ', '_')
RECURSIVE SpacesToUnderscores(_)
SpacesToUnderscores(s) ==
    IF s = "" THEN ""
    ELSE Translate(Ch(s, 1), " ", "_") \o SpacesToUnderscores(SubSeq(s, 2, Len(s)))

IsSpace(c) == c \in {" ", "\t", "\n", "\r", "\f"}
IsAlnum(c) == \E i \in 1..Len(AlnumChars) : Ch(AlnumChars, i) = c
IsWordCh(c) == c = "_" \/ IsAlnum(c)

\* s without what lies outside the positions kept
Trim(s, keep) == IF keep = {} THEN "" ELSE SubSeq(s, Min(keep), Max(keep))

\* str.strip()
Strip(s) == Trim(s, {i \in 1..Len(s) : ~IsSpace(Ch(s, i))})

\* str.strip(', ')
StripCommaSpace(s) == Trim(s, {i \in 1..Len(s) : Ch(s, i) \notin {",", " "}})

\* s[:n]
Prefix(s, n) == SubSeq(s, 1, IF Len(s) < n THEN Len(s) ELSE n)

StartsWith(s, p) == Len(p) <= Len(s) /\ SubSeq(s, 1, Len(p)) = p
\* p in s
Contains(s, p) ==
    \/ p = ""
    \/ \E i \in 1..(Len(s) - Len(p) + 1) :
          Ch(s, i) = Ch(p, 1) /\ SubSeq(s, i, i + Len(p) - 1) = p

\* p, in lower case, matches s at i under re.IGNORECASE
MatchesFold(s, i, p) ==
    i >= 1 /\ i + Len(p) - 1 <= Len(s) /\ Lower(SubSeq(s, i, i + Len(p) - 1)) = p

\* sep.join(xs)
RECURSIVE Join(_, _)
Join(sep, xs) ==
    IF Len(xs) = 0 THEN ""
    ELSE IF Len(xs) = 1 THEN xs[1]
    ELSE xs[1] \o sep \o Join(sep, Tail(xs))

\* n copies of s
RECURSIVE Rep(_, _)
Rep(s, n) ==
    IF n <= 0 THEN ""
    ELSE IF n % 2 = 0 THEN Rep(s \o s, n \div 2)
    ELSE s \o Rep(s, n - 1)

(***************************************************************************)
(* Results of calls that may raise.                                        *)
(***************************************************************************)
Ok(v) == [exc |-> FALSE, val |-> v]
Raise(msg) == [exc |-> TRUE, msg |-> msg]

(***************************************************************************)
(* The AI backend: the HTTP exchange of query_hf_model.  A response is     *)
(* what requests.post did: it raised, or it answered with a status and a   *)
(* body.  A body is not JSON, a JSON object, or a JSON list of items; an   *)
(* item is a JSON object, given as the sequence of its generated_text      *)
(* values (empty when the key is missing).                                 *)
(***************************************************************************)
HfRaise == [kind |-> "raise", status |-> 0, json |-> "", items |-> <<>>]
HfStatus(code) == [kind |-> "http", status |-> code, json |-> "object", items |-> <<>>]
HfBadJson == [kind |-> "http", status |-> 200, json |-> "invalid", items |-> <<>>]
HfErrorObject == [kind |-> "http", status |-> 200, json |-> "object", items |-> <<>>]
HfEmptyList == [kind |-> "http", status |-> 200, json |-> "list", items |-> <<>>]
HfNoText == [kind |-> "http", status |-> 200, json |-> "list", items |-> << <<>> >>]
HfText(t) == [kind |-> "http", status |-> 200, json |-> "list", items |-> << <<t>> >>]

\* The try block of query_hf_model (lines 20-38).
hf_try_block(resp) ==
    IF resp.kind = "raise" THEN Raise("HTTPSConnectionPool: Read timed out.")
    ELSE IF resp.status = 200
    THEN IF resp.json = "invalid" THEN Raise("Expecting value: line 1 column 1 (char 0)")
         ELSE IF resp.json = "list" /\ Len(resp.items) > 0
         THEN Ok(Strip(IF Len(resp.items[1]) = 0 THEN "" ELSE resp.items[1][1]))
         ELSE Ok("")
    ELSE Ok("")

\* lines 39-40: except Exception: return ""
hf_except(r) == IF r.exc THEN Ok("") ELSE r

query_hf_model(resp) == hf_except(hf_try_block(resp))

(***************************************************************************)
(* extract_company_name: the regular expressions, as re.search evaluates   *)
(* them (leftmost match; \s+ greedy; the group lazy or greedy as written). *)
(***************************************************************************)
\* the character class [A-Za-z0-9\s&.-]
InClass(c) == c \in {"&", ".", "-", " ", "\t", "\n", "\r", "\f"} \/ IsAlnum(c)

AllInClass(q, a, b) == \A j \in a..b : InClass(Ch(q, j))

\* (?:\s|$|\?) can match at position j
Terminator(q, j) ==
    \/ j = Len(q) + 1
    \/ j <= Len(q) /\ Ch(q, j) \in {"?", " ", "\t", "\n", "\r", "\f"}

\* ([A-Za-z0-9\s&.-]+?) from position g on: the ends of the groups that the
\* terminator follows
GroupEnds(q, g) == {e \in g..Len(q) : Terminator(q, e + 1) /\ AllInClass(q, g, e)}

\* the white space that follows position p - 1
SpaceRun(q, p) == {k \in 1..(Len(q) - p + 1) : \A j \in p..(p + k - 1) : IsSpace(Ch(q, j))}

\* kw\s+(group)(?:\s|$|\?) with kw at position i: the <<i, g, e>> with the
\* group at g..e, for every length of \s+ and of the group
KeywordMatches(q, kw, i) ==
    {<<i, i + Len(kw) + k, e>> : k \in SpaceRun(q, i + Len(kw)), e \in 1..Len(q)}

\* the match re.search reports among ms: the leftmost; \s+ as long as can be;
\* the lazy group as short as can be
FirstLazy(q, ms) ==
    IF ms = {} THEN <<>>
    ELSE LET m == CHOOSE m \in ms : \A o \in ms :
                      \/ m[1] < o[1]
                      \/ m[1] = o[1] /\ m[2] > o[2]
                      \/ m[1] = o[1] /\ m[2] = o[2] /\ m[3] <= o[3]
         IN  <<SubSeq(q, m[2], m[3])>>

\* re.search(kw\s+([A-Za-z0-9\s&.-]+?)(?:\s|$|\?), q, re.IGNORECASE):
\* <<group(1)>> or <<>>
KeywordSearch(q, kw) ==
    FirstLazy(q, {m \in UNION {KeywordMatches(q, kw, i) :
                                  i \in {j \in 1..Len(q) : MatchesFold(q, j, kw)}} :
                     m[3] \in GroupEnds(q, m[2])})

\* ([A-Za-z0-9\s&.-]+)'s\s+ : the <<i, e>> with the group at i..e
PossessiveMatches(q) ==
    {m \in (1..Len(q)) \X (1..Len(q)) :
        /\ m[1] <= m[2]
        /\ m[2] + 3 <= Len(q)
        /\ MatchesFold(q, m[2] + 1, "'s")
        /\ IsSpace(Ch(q, m[2] + 3))
        /\ AllInClass(q, m[1], m[2])}

\* the match re.search reports among ms: the leftmost; the greedy group as
\* long as can be
FirstGreedy(q, ms) ==
    IF ms = {} THEN <<>>
    ELSE LET m == CHOOSE m \in ms : \A o \in ms :
                      m[1] < o[1] \/ (m[1] = o[1] /\ m[2] >= o[2])
         IN  <<SubSeq(q, m[1], m[2])>>

\* re.search(r"([A-Za-z0-9\s&.-]+)'s\s+", q, re.IGNORECASE): <<group(1)>> or <<>>
PossessiveSearch(q) == FirstGreedy(q, PossessiveMatches(q))

SuffixWords == {"company", "corp", "corporation", "inc", "ltd", "llc"}

\* \b between positions i-1 and i
WordBoundary(s, i) ==
    (i - 1 >= 1 /\ IsWordCh(Ch(s, i - 1))) # (i <= Len(s) /\ IsWordCh(Ch(s, i)))

\* the length of the suffix word that \b(company|...|llc)\b matches at i, or 0
SuffixWordAt(s, i) ==
    IF WordBoundary(s, i)
    THEN Max({0} \cup {Len(w) : w \in {x \in SuffixWords :
                                          MatchesFold(s, i, x) /\ WordBoundary(s, i + Len(x))}})
    ELSE 0

\* re.sub(r'\b(company|corp|corporation|inc|ltd|llc)\b', '', s, flags=re.IGNORECASE):
\* the positions of s that stay
SuffixWordsKept(s) ==
    {i \in 1..Len(s) : \A j \in 1..i : j + SuffixWordAt(s, j) <= i}

\* the characters of s at the positions kept, in order
RECURSIVE Select(_, _, _)
Select(s, kept, i) ==
    IF i > Len(s) THEN ""
    ELSE (IF i \in kept THEN Ch(s, i) ELSE "") \o Select(s, kept, i + 1)

\* lines 63-65: strip, remove the suffix words, strip
RemoveSuffixWords(s) == Strip(Select(s, SuffixWordsKept(s), 1))
CleanCompany(group) == RemoveSuffixWords(Strip(group))

Keywords == <<"about", "", "analyze", "tell me about", "research">>

\* company_patterns (lines 52-58): the search the n-th pattern makes
PatternSearch(q, n) == IF n = 2 THEN PossessiveSearch(q) ELSE KeywordSearch(q, Keywords[n])

\* A mutant: the possessive pattern tried before the "about" pattern.
PatternOrderSwapped == <<2, 1, 3, 4, 5>>

\* the order the loop of line 60 tries the patterns in
PatternOrder == <<1, 2, 3, 4, 5>>

\* lines 60-68, given what each pattern found
FirstFound(found) ==
    IF \A k \in DOMAIN found : found[k] = <<>> THEN "Unknown Company"
    ELSE CleanCompany(found[Min({k \in DOMAIN found : found[k] # <<>>})][1])

pattern_fallback(q) == FirstFound([k \in 1..Len(PatternOrder) |-> PatternSearch(q, PatternOrder[k])])

\* line 48
AiNameUsable(ai_result) == ai_result # "" /\ Len(ai_result) < 50

\* lines 48-68, given the AI's answer
name_from(q, ai) ==
    IF ai.exc THEN ai
    ELSE IF AiNameUsable(ai.val) THEN Ok(Strip(ai.val))
    ELSE Ok(pattern_fallback(q))

extract_company_name(q, resp) == name_from(q, query_hf_model(resp))

(***************************************************************************)
(* Python values of no fixed type: the fields of the provider's info and   *)
(* of the profile built from them.  An int is b * 10^9 + u with            *)
(* 0 <= u < 10^9; a float is n / 10^e.                                     *)
(***************************************************************************)
None == [t |-> "none"]
Str(s) == [t |-> "str", s |-> s]
PyInt(b, u) == [t |-> "int", b |-> b, u |-> u]
PyFloat(n, e) == [t |-> "float", n |-> n, e |-> e]
Obj == [t |-> "obj"]          \* an object json cannot serialize and that is no number

\* bool(v)
Truthy(v) ==
    CASE v.t = "none"  -> FALSE
      [] v.t = "str"   -> v.s # ""
      [] v.t = "int"   -> v.b # 0 \/ v.u # 0
      [] v.t = "float" -> v.n # 0
      [] v.t = "obj"   -> TRUE

Pow10(e) == CASE e = 0 -> 1 [] e = 1 -> 10 [] e = 2 -> 100 [] e = 3 -> 1000
              [] e = 4 -> 10000 [] e = 5 -> 100000 [] e = 6 -> 1000000
              [] e = 7 -> 10000000 [] e = 8 -> 100000000 [] e = 9 -> 1000000000

\* a / b rounded to the nearest integer, a tie to the even one (a, b >= 0)
RoundDiv(a, b) ==
    LET q == a \div b
        r == a % b
    IN  IF 2 * r > b \/ (2 * r = b /\ q % 2 = 1) THEN q + 1 ELSE q

PadLeft(s, n) == Rep("0", n - Len(s)) \o s

\* format(x, ".<d>f") of the number scaled / 10^d
FixedStr(scaled, d) ==
    IF d = 0 THEN ToString(scaled)
    ELSE ToString(scaled \div Pow10(d)) \o "." \o PadLeft(ToString(scaled % Pow10(d)), d)

\* format(n, ",") of a natural number below 10^9
RECURSIVE Grouped(_)
Grouped(n) ==
    IF n < 1000 THEN ToString(n)
    ELSE Grouped(n \div 1000) \o "," \o PadLeft(ToString(n % 1000), 3)

\* str(v), as an f-string renders {v}
PyStr(v) ==
    CASE v.t = "none"  -> "None"
      [] v.t = "str"   -> v.s
      [] v.t = "int"   -> IF v.b = 0 THEN ToString(v.u)
                          ELSE ToString(v.b) \o PadLeft(ToString(v.u), 9)
      [] v.t = "float" -> (IF v.n < 0 THEN "-" ELSE "")
                            \o FixedStr(IF v.e = 0 THEN 10 * (IF v.n < 0 THEN 0 - v.n ELSE v.n)
                                        ELSE (IF v.n < 0 THEN 0 - v.n ELSE v.n),
                                        IF v.e = 0 THEN 1 ELSE v.e)
      [] v.t = "obj"   -> "Timestamp('2024-01-01 00:00:00')"

\* dict.get(k, default)
Get(d, k, default) == IF k \in DOMAIN d THEN d[k] ELSE default

(***************************************************************************)
(* get_financial_data.  The provider's outcome is what yf.Ticker(t).info   *)
(* did: it raised, or it gave an info dict.                                *)
(***************************************************************************)
YfRaise(msg) == [kind |-> "raise", msg |-> msg]
YfInfo(info) == [kind |-> "info", info |-> info]

\* lines 74-79
ticker_map ==
    [k \in {"apple", "microsoft", "google", "amazon", "tesla", "meta", "netflix",
            "nvidia", "facebook", "alphabet", "ford", "general motors"} |->
        CASE k = "apple" -> "AAPL"      [] k = "microsoft" -> "MSFT"
          [] k = "google" -> "GOOGL"    [] k = "amazon" -> "AMZN"
          [] k = "tesla" -> "TSLA"      [] k = "meta" -> "META"
          [] k = "netflix" -> "NFLX"    [] k = "nvidia" -> "NVDA"
          [] k = "facebook" -> "META"   [] k = "alphabet" -> "GOOGL"
          [] k = "ford" -> "F"          [] k = "general motors" -> "GM"]

\* A mutant: the table looked up with the identifier as given.
resolve_ticker_case_sensitive(name) ==
    IF name \in DOMAIN ticker_map THEN ticker_map[name] ELSE Upper(name)

\* line 80
resolve_ticker(name) ==
    IF Lower(name) \in DOMAIN ticker_map THEN ticker_map[Lower(name)] ELSE Upper(name)

\* line 99
headquarters(info) ==
    StripCommaSpace(PyStr(Get(info, "city", Str(""))) \o ", " \o PyStr(Get(info, "state", Str("")))
                      \o " " \o PyStr(Get(info, "country", Str(""))))

\* lines 85-100
build_profile(name, ticker, info) ==
    [ticker           |-> Str(ticker),
     company_name     |-> Get(info, "longName", Str(name)),
     market_cap       |-> Get(info, "marketCap", None),
     revenue          |-> Get(info, "totalRevenue", None),
     sector           |-> Get(info, "sector", None),
     industry         |-> Get(info, "industry", None),
     employees        |-> Get(info, "fullTimeEmployees", None),
     website          |-> Get(info, "website", None),
     business_summary |-> Get(info, "longBusinessSummary", None),
     current_price    |-> Get(info, "currentPrice", None),
     pe_ratio         |-> Get(info, "trailingPE", None),
     profit_margin    |-> Get(info, "profitMargins", None),
     revenue_growth   |-> Get(info, "revenueGrowth", None),
     headquarters     |-> Str(headquarters(info))]

\* The try block of get_financial_data (lines 73-102).
financial_try_block(name, out) ==
    IF out.kind = "raise" THEN Raise(out.msg)
    ELSE Ok(build_profile(name, resolve_ticker(name), out.info))

\* lines 104-105: except Exception as e
financial_except(r) ==
    IF r.exc THEN Ok([error |-> Str("Could not retrieve financial data: " \o r.msg)]) ELSE r

\* A mutant: get_financial_data without its except clause.
get_financial_data_uncaught(name, out) == financial_try_block(name, out)

get_financial_data(name, out) == financial_except(financial_try_block(name, out))

(***************************************************************************)
(* scrape_company_info and get_website_text_content.  The fetcher's        *)
(* outcome is what trafilatura did: fetch_url or extract raised, fetch_url *)
(* gave nothing, or extract gave a value (None or a string).               *)
(***************************************************************************)
FetchRaise(msg) == [kind |-> "raise", msg |-> msg]
FetchNothing == [kind |-> "nothing"]
FetchExtract(v) == [kind |-> "extract", val |-> v]

MinContentLen == 100
MaxContentLen == 2000

\* src/web_scraper.py lines 15-24
get_website_text_content(url, fetch) ==
    IF fetch.kind = "raise" THEN None
    ELSE IF fetch.kind = "nothing" THEN None
    ELSE fetch.val

\* line 112
wiki_url(name) == "https://en.wikipedia.org/wiki/" \o SpacesToUnderscores(name)

NoWebContent == "No additional web content found."

\* A mutant: content accepted from MinContentLen characters on and not cut.
accept_content_off_by_one(url, content) ==
    IF Truthy(content) /\ Len(content.s) >= MinContentLen
    THEN "\n\nSource: " \o url \o "\n" \o content.s \o "..."
    ELSE ""

\* lines 119-121: what one url adds to scraped_content
accept_content(url, content) ==
    IF Truthy(content) /\ Len(content.s) > MinContentLen
    THEN "\n\nSource: " \o url \o "\n" \o Prefix(content.s, MaxContentLen) \o "..."
    ELSE ""

\* line 125
scraped_or_sentinel(scraped_content) ==
    IF scraped_content # "" THEN scraped_content ELSE NoWebContent

\* lines 116-125, for the one url of search_urls
scrape_url(url, fetch) ==
    scraped_or_sentinel(accept_content(url, get_website_text_content(url, fetch)))

\* lines 109-128
scrape_company_info(name, fetch) == Ok(scrape_url(wiki_url(name), fetch))

(***************************************************************************)
(* Number formatting.  The model's numbers avoid exact ties, where the     *)
(* binary value of a Python float decides the rounding.                    *)
(***************************************************************************)
Abs(n) == IF n < 0 THEN 0 - n ELSE n

\* format(x, ".<d>f") for x = n / 10^e
FloatFixed(n, e, d) ==
    (IF n < 0 THEN "-" ELSE "")
      \o FixedStr(IF e <= d THEN Abs(n) * Pow10(d - e) ELSE RoundDiv(Abs(n), Pow10(e - d)), d)

\* f"{v / 1e9:.1f}": Ok(text), or the TypeError of the division
BillionsStr(v) ==
    CASE v.t = "int"   -> Ok(FixedStr(v.b * 10 + RoundDiv(v.u, Pow10(8)), 1))
      [] v.t = "float" -> Ok(FixedStr(RoundDiv(Abs(v.n), Pow10(v.e + 8)), 1))
      [] v.t = "str"   -> Raise("unsupported operand type(s) for /: 'str' and 'float'")
      [] OTHER         -> Raise("unsupported operand type(s) for /: 'Timestamp' and 'float'")

\* f"{v:.<d>f}": Ok(text), or the error of the format
FixedFmt(v, d) ==
    CASE v.t = "int"   -> Ok(PyStr(v) \o "." \o Rep("0", d))
      [] v.t = "float" -> Ok(FloatFixed(v.n, v.e, d))
      [] v.t = "str"   -> Raise("Unknown format code 'f' for object of type 'str'")
      [] OTHER         -> Raise("unsupported format string passed to Timestamp.__format__")

\* f"{v * 100:.1f}"
PercentStr(v) ==
    CASE v.t = "int"   -> Ok(PyStr(v) \o "00.0")
      [] v.t = "float" -> Ok(FloatFixed(v.n * 100, v.e, 1))
      [] v.t = "str"   -> Raise("Unknown format code 'f' for object of type 'str'")
      [] OTHER         -> Raise("unsupported operand type(s) for *: 'Timestamp' and 'int'")

\* f"{v:,}"
GroupedStr(v) ==
    CASE v.t = "int"   -> Ok(IF v.b = 0 THEN Grouped(v.u)
                             ELSE Grouped(v.b) \o "," \o PadLeft(ToString(v.u \div 1000000), 3)
                                    \o "," \o PadLeft(ToString((v.u \div 1000) % 1000), 3)
                                    \o "," \o PadLeft(ToString(v.u % 1000), 3))
      [] v.t = "float" -> Ok(Grouped(v.n \div Pow10(v.e)) \o "."
                               \o (IF v.e = 0 THEN "0" ELSE PadLeft(ToString(v.n % Pow10(v.e)), v.e)))
      [] v.t = "str"   -> Raise("Cannot specify ',' with 's'.")
      [] OTHER         -> Raise("unsupported format string passed to Timestamp.__format__")

(***************************************************************************)
(* format_financial_data.                                                  *)
(***************************************************************************)
\* One "if data.get(field): formatted += ..." step (lines 201-223): the line
\* added, "" when the field's value v is falsy; r is the f-string's value for
\* the field, Ok(text) or the error of the arithmetic or the format.
Bullet(v, label, before, r, after) ==
    IF ~Truthy(v) THEN Ok("")
    ELSE IF r.exc THEN r
    ELSE Ok("- " \o label \o ": " \o before \o r.val \o after \o "\n")

\* data.get(field)
Field(data, field) == Get(data, field, None)

\* the steps of lines 201-223 in order
Bullets(data) ==
    << Bullet(Field(data, "market_cap"), "Market Cap", "$",
              BillionsStr(Field(data, "market_cap")), "B"),
       Bullet(Field(data, "revenue"), "Annual Revenue", "$",
              BillionsStr(Field(data, "revenue")), "B"),
       Bullet(Field(data, "current_price"), "Stock Price", "$",
              FixedFmt(Field(data, "current_price"), 2), ""),
       Bullet(Field(data, "pe_ratio"), "P/E Ratio", "",
              FixedFmt(Field(data, "pe_ratio"), 1), ""),
       Bullet(Field(data, "profit_margin"), "Profit Margin", "",
              PercentStr(Field(data, "profit_margin")), "%"),
       Bullet(Field(data, "employees"), "Employees", "",
              GroupedStr(Field(data, "employees")), ""),
       Bullet(Field(data, "headquarters"), "Headquarters", "",
              Ok(PyStr(Field(data, "headquarters"))), "") >>

\* lines 199-225, given the steps: the first error raised, or the heading
\* and the lines added
formatted_from(bs) ==
    IF \E i \in 1..Len(bs) : bs[i].exc
    THEN bs[Min({i \in 1..Len(bs) : bs[i].exc})]
    ELSE Ok("**Financial Highlights:**\n" \o Join("", [i \in 1..Len(bs) |-> bs[i].val]))

\* a placeholder line in place of every line not added
placeholders(bs) ==
    [i \in 1..Len(bs) |-> IF bs[i].exc \/ bs[i].val # "" THEN bs[i] ELSE Ok("- N/A\n")]

\* A mutant: a placeholder where the code adds no line.
format_financial_data_placeholder(data) ==
    IF "error" \in DOMAIN data THEN Ok("**Financial Data:** " \o PyStr(data["error"]))
    ELSE formatted_from(placeholders(Bullets(data)))

\* lines 194-225: Ok(text), or the error raised
format_financial_data(data) ==
    IF "error" \in DOMAIN data THEN Ok("**Financial Data:** " \o PyStr(data["error"]))
    ELSE formatted_from(Bullets(data))

(***************************************************************************)
(* generate_competitor_analysis and generate_basic_competitor_analysis.    *)
(***************************************************************************)
\* lines 164-171
competitors_db ==
    [k \in {"Technology", "Automotive", "Financial Services", "Healthcare",
            "Consumer Discretionary", "Energy"} |->
        CASE k = "Technology" -> <<"Apple", "Microsoft", "Google", "Amazon", "Meta">>
          [] k = "Automotive" -> <<"Tesla", "Ford", "General Motors", "Toyota", "Volkswagen">>
          [] k = "Financial Services" ->
                 <<"JPMorgan Chase", "Bank of America", "Wells Fargo", "Goldman Sachs">>
          [] k = "Healthcare" -> <<"Johnson & Johnson", "Pfizer", "UnitedHealth", "Merck">>
          [] k = "Consumer Discretionary" -> <<"Amazon", "Nike", "Home Depot", "McDonald's">>
          [] k = "Energy" -> <<"ExxonMobil", "Chevron", "ConocoPhillips", "BP">>]

MaxCompetitors == 5

\* line 173: competitors_db.get(sector, [])
potential_competitors(sector) ==
    IF sector.t = "str" /\ sector.s \in DOMAIN competitors_db THEN competitors_db[sector.s]
    ELSE <<>>

\* xs[:n]
FirstN(xs, n) == SubSeq(xs, 1, IF Len(xs) < n THEN Len(xs) ELSE n)

\* line 174: [c for c in potential_competitors if c.lower() != company_name.lower()][:5]
listed_competitors(cn, sector) ==
    FirstN(SelectSeq(potential_competitors(sector), LAMBDA c : Lower(c) # Lower(cn.s)),
           MaxCompetitors)

\* lines 183-192: the text after the industry
CompetitorTemplateEnd ==
    " industry. Competitive positioning depends on market share, innovation capabilities, and operational efficiency.\n"
      \o "\n"
      \o "**Competitive Factors:**\n"
      \o "- Brand recognition and customer loyalty\n"
      \o "- Product/service differentiation\n"
      \o "- Pricing strategy and cost structure\n"
      \o "- Distribution channels and market reach\n"
      \o "- Technology and innovation capabilities\n"
      \o "\n"
      \o "*Note: Detailed competitive analysis requires current market data and industry reports.*"

\* line 181
competitors_or_note(competitors_text) ==
    IF competitors_text # "" THEN competitors_text ELSE "Analysis requires additional research"

\* lines 176-192, given str() of the three arguments
basic_text(cn, sector, industry, competitors_text) ==
    ("**Competitive Analysis for " \o cn \o "**\n"
       \o "\n"
       \o "**Sector:** " \o sector \o "\n"
       \o "**Industry:** " \o industry \o "\n"
       \o "\n"
       \o "**Key Competitors:** " \o competitors_or_note(competitors_text) \o "\n"
       \o "\n"
       \o "**Market Position:** " \o cn \o " operates in the " \o sector
       \o " sector within the " \o industry)
      \o CompetitorTemplateEnd

\* lines 162-192; cn, sector, industry are Python values.  company_name.lower()
\* is evaluated once per potential competitor.
generate_basic_competitor_analysis(cn, sector, industry) ==
    IF potential_competitors(sector) # <<>> /\ cn.t # "str"
    THEN Raise("'NoneType' object has no attribute 'lower'")
    ELSE Ok(basic_text(PyStr(cn), PyStr(sector), PyStr(industry),
                       Join(", ", listed_competitors(cn, sector))))

\* lines 153-157, given the AI's answer
competitor_from(data, ai) ==
    IF ai.exc THEN ai
    ELSE IF ai.val # "" THEN ai
    ELSE generate_basic_competitor_analysis(Get(data, "company_name", Str("Unknown")),
                                            Get(data, "sector", Str("Unknown")),
                                            Get(data, "industry", Str("Unknown")))

\* The try block of generate_competitor_analysis (lines 133-157).
competitor_try_block(data, resp) == competitor_from(data, query_hf_model(resp))

\* lines 159-160: except Exception as e
competitor_except(r) ==
    IF r.exc THEN Ok("Could not generate competitor analysis: " \o r.msg) ELSE r

\* lines 130-160
generate_competitor_analysis(data, resp) == competitor_except(competitor_try_block(data, resp))

(***************************************************************************)
(* json.dumps(..., indent=2), for the values the model holds.              *)
(***************************************************************************)
\* the escape json.dumps writes for a character inside a string
JsonChar(c) ==
    CASE c = "\"" -> "\\\""
      [] c = "\\" -> "\\\\"
      [] c = "\n" -> "\\n"
      [] c = "\t" -> "\\t"
      [] c = "\r" -> "\\r"
      [] c = "\f" -> "\\f"
      [] OTHER    -> c

RECURSIVE JsonEscape(_)
JsonEscape(s) ==
    IF s = "" THEN "" ELSE JsonChar(Ch(s, 1)) \o JsonEscape(SubSeq(s, 2, Len(s)))

JsonValue(v) ==
    CASE v.t = "none" -> "null"
      [] v.t = "str"  -> "\"" \o JsonEscape(v.s) \o "\""
      [] OTHER        -> PyStr(v)

\* the keys of a profile in the order the dict was built (lines 85-100, 105)
ProfileKeys(data) ==
    IF "error" \in DOMAIN data THEN <<"error">>
    ELSE SelectSeq(<<"ticker", "company_name", "market_cap", "revenue", "sector", "industry",
                     "employees", "website", "business_summary", "current_price", "pe_ratio",
                     "profit_margin", "revenue_growth", "headquarters">>,
                   LAMBDA k : k \in DOMAIN data)

\* the members of the JSON object, one per key
JsonMembers(data, ks) ==
    [i \in 1..Len(ks) |-> "  \"" \o ks[i] \o "\": " \o JsonValue(data[ks[i]])]

\* json.dumps(financial_data, indent=2) (line 251)
json_dumps_profile(data) ==
    IF \E k \in DOMAIN data : data[k].t = "obj"
    THEN Raise("Object of type Timestamp is not JSON serializable")
    ELSE Ok("{\n" \o Join(",\n", JsonMembers(data, ProfileKeys(data))) \o "\n}")

HistoryWindow == 5

\* h[-n:]
LastN(h, n) == SubSeq(h, IF Len(h) > n THEN Len(h) - n + 1 ELSE 1, Len(h))

\* the elements of the JSON list, one per message
JsonMessages(w) ==
    [i \in 1..Len(w) |->
        "  {\n    \"role\": \"" \o JsonEscape(w[i].role)
          \o "\",\n    \"content\": \"" \o JsonEscape(w[i].content) \o "\"\n  }"]

\* json.dumps(chat_history[-5:], indent=2) if chat_history else 'None' (line 256)
json_dumps_history(h) ==
    IF h = <<>> THEN "None"
    ELSE "[\n" \o Join(",\n", JsonMessages(LastN(h, HistoryWindow))) \o "\n]"

(***************************************************************************)
(* The prompts sent to the AI backend.                                     *)
(***************************************************************************)
\* line 45
name_prompt(q) ==
    "Extract only the company name from this query: '" \o q \o "'\n" \o "Company name:"

\* lines 137-149, given str() of the three fields
competitor_prompt_text(cn, sector, industry) ==
    "Analyze the competitive landscape for " \o cn \o " in the " \o sector
      \o " sector, specifically in " \o industry \o ".\n"
      \o "\n"
      \o "Company: " \o cn \o "\n"
      \o "Sector: " \o sector \o "\n"
      \o "Industry: " \o industry \o "\n"
      \o "\n"
      \o "Provide a comprehensive competitor analysis including:\n"
      \o "1. Direct competitors\n"
      \o "2. Market positioning\n"
      \o "3. Competitive advantages\n"
      \o "4. Market share considerations\n"
      \o "\n"
      \o "Analysis:"

\* lines 133-149
competitor_prompt(data) ==
    competitor_prompt_text(PyStr(Get(data, "company_name", Str("Unknown"))),
                           PyStr(Get(data, "sector", Str("Unknown"))),
                           PyStr(Get(data, "industry", Str("Unknown"))))

\* lines 262-273: the text after the context
AnalysisPromptEnd ==
    "            \n"
      \o "\n"
      \o "Structure your response with clear sections:\n"
      \o "- Company Overview\n"
      \o "- Financial Highlights  \n"
      \o "- Key Competitors\n"
      \o "- Investment Considerations (Strengths, Challenges, Opportunities)\n"
      \o "- PE Relevance\n"
      \o "\n"
      \o "Provide professional, detailed analysis focused on PE investment considerations. Use markdown formatting with clear headings and bullet points.\n"
      \o "\n"
      \o "Analysis:"

\* lines 249-273, given the two serializations
analysis_prompt(name, fin_json, web, comp, q, hist_json) ==
    (("As a Private Equity research analyst, provide comprehensive company analysis for investment considerations.\n"
        \o "\n"
        \o "\n"
        \o "            Company: " \o name \o "\n"
        \o "            Financial Data: " \o fin_json \o "\n"
        \o "            Web Content: ")
      \o (Prefix(web, 1000) \o "...\n" \o "            Competitor Analysis: "))
      \o (comp
           \o ("\n"
                \o "            \n"
                \o "            User Query: " \o q \o "\n"
                \o "            Chat History: " \o hist_json \o "\n"
                \o AnalysisPromptEnd))

(***************************************************************************)
(* generate_structured_analysis and the two reports.                       *)
(***************************************************************************)
\* lines 334-351: the text after the strengths
StructuredTemplateEnd ==
    "\n"
      \o "### Challenges\n"
      \o "- Competitive market environment\n"
      \o "- Industry-specific regulatory considerations\n"
      \o "- Market volatility and economic factors\n"
      \o "\n"
      \o "### Opportunities\n"
      \o "- Sector growth potential\n"
      \o "- Strategic expansion possibilities\n"
      \o "- Operational efficiency improvements\n"
      \o "\n"
      \o "## PE Relevance\n"
      \o "This analysis provides foundational data for Private Equity evaluation. Key considerations include:\n"
      \o "- Financial performance metrics\n"
      \o "- Market position and competitive landscape\n"
      \o "- Growth potential and scalability\n"
      \o "- Operational improvement opportunities\n"
      \o "\n"
      \o "*Note: This analysis is based on available public data. Detailed due diligence would require additional proprietary information and market research.*"

\* line 331; the division succeeds here, format_financial_data made it before
market_cap_strength(mc) ==
    IF Truthy(mc) THEN "Market capitalization of $" \o BillionsStr(mc).val \o "B"
    ELSE "Significant market position"

\* line 332
revenue_strength(rev) ==
    IF Truthy(rev) THEN "Revenue of $" \o BillionsStr(rev).val \o "B annually"
    ELSE "Established revenue streams"

\* lines 319-351, given the formatted financials; suffix is what follows the
\* template (nothing in the code)
structured_text(name, data, comp, formatted, suffix) ==
    ("## Company Overview\n"
       \o name \o " is a company operating in the "
       \o PyStr(Get(data, "sector", Str("various"))) \o " sector, specifically in the "
       \o PyStr(Get(data, "industry", Str("multiple industries"))) \o " space.\n"
       \o "\n"
       \o formatted \o "\n"
       \o "\n"
       \o "## Key Competitors\n")
      \o (comp
           \o ("\n"
                \o "\n"
                \o "## Investment Considerations\n"
                \o "\n"
                \o "### Strengths\n"
                \o "- Established market presence in "
                \o PyStr(Get(data, "sector", Str("their sector"))) \o "\n"
                \o "- " \o market_cap_strength(Get(data, "market_cap", PyInt(0, 0))) \o "\n"
                \o "- " \o revenue_strength(Get(data, "revenue", PyInt(0, 0))) \o "\n"
                \o StructuredTemplateEnd
                \o suffix))

\* lines 317-351, given what format_financial_data did
structured_from(name, data, comp, fmt, suffix) ==
    IF fmt.exc THEN fmt ELSE Ok(structured_text(name, data, comp, fmt.val, suffix))

\* A mutant: the report stamped with the number of the call that made it.
generate_structured_analysis_stamped(name, data, comp, web, n) ==
    structured_from(name, data, comp, format_financial_data(data),
                    "\n\nGenerated by request #" \o ToString(n))

\* lines 315-351; n is the number of calls the engine served before this one,
\* which the code does not read
generate_structured_analysis(name, data, comp, web, n) ==
    structured_from(name, data, comp, format_financial_data(data), "")

\* A mutant: the title line without its markdown heading marker.
final_response_untitled(name, data, analysis) ==
    (PyStr(Get(data, "company_name", Str(name))) \o " - PE Research Analysis\n\n") \o analysis

\* lines 282-285
final_response(name, data, analysis) ==
    IF "error" \notin DOMAIN data
    THEN ("# " \o PyStr(Get(data, "company_name", Str(name))) \o " - PE Research Analysis\n\n")
           \o analysis
    ELSE ("# " \o name \o " - PE Research Analysis\n\n") \o analysis

\* lines 302-313: the text after the error details
ErrorReportEnd ==
    "\n"
      \o "\n"
      \o "**Possible Solutions:**\n"
      \o "- Check if the company name is spelled correctly\n"
      \o "- Try using the full company name or stock ticker\n"
      \o "- Ensure the company is publicly traded or well-known\n"
      \o "- Rephrase your question\n"
      \o "\n"
      \o "**Example Queries:**\n"
      \o "- \"Tell me about Apple\"\n"
      \o "- \"Analyze Tesla's market position\" \n"
      \o "- \"Who are Microsoft's competitors?\"\n"
      \o "\n"
      \o "Please try again with a different approach."

\* lines 296-313
error_report(extracted_name, msg) ==
    "**Analysis Error**\n"
      \o "\n"
      \o "I encountered an issue while researching " \o extracted_name \o ":\n"
      \o "\n"
      \o "**Error Details:** " \o msg
      \o ErrorReportEnd

\* lines 290-294: the name the handler reports, given the second extraction
handler_name(r) == IF r.exc THEN "the requested company" ELSE r.val

\* A mutant: the outer except clause re-raising what it caught.
outer_except_reraise(q, resp, msg) == Raise(msg)

\* lines 289-313: the outer except clause of analyze_company
outer_except(q, resp, msg) ==
    Ok(error_report(handler_name(extract_company_name(q, resp)), msg))

(***************************************************************************)
(* Inputs: the queries, the histories and what the collaborators answer.   *)
(***************************************************************************)
Queries == {"Tell me about Apple", "Analyze Tesla's market position", "hello"}

\* a conversation of n turns, as the chat surface keeps it
Turn(i) ==
    IF i % 2 = 1 THEN [role |-> "user", content |-> "Tell me more about \"Tesla\""]
    ELSE [role |-> "assistant", content |-> "# Tesla - PE Research Analysis\n\n## Company Overview"]

History(n) == [i \in 1..n |-> Turn(i)]

Histories == {History(n) : n \in 0..MaxHistory}

\* line 236
FollowupKeywords == {"more", "tell me more", "continue", "what about", "also", "additionally"}

\* the AI backend does not answer
HfUnavailable == {HfRaise, HfStatus(503)}

HfNameResponses == {HfRaise, HfText(" Tesla \n")}

HfCompetitorResponses ==
    {HfStatus(503), HfText("Direct competitors include established peers in the same market.")}

HfAnalysisResponses ==
    {HfRaise, HfText("The company shows solid fundamentals for a buyout.")}

AppleInfo ==
    [longName |-> Str("Apple Inc."), marketCap |-> PyInt(3, 0), totalRevenue |-> PyInt(383, 285000000),
     sector |-> Str("Technology"), industry |-> Str("Consumer Electronics"),
     fullTimeEmployees |-> PyInt(0, 164000), website |-> Str("https://www.apple.com"),
     longBusinessSummary |-> Str("Apple Inc. designs smartphones."),
     currentPrice |-> PyFloat(18984, 2), trailingPE |-> PyFloat(285, 1),
     profitMargins |-> PyFloat(2531, 4), revenueGrowth |-> PyFloat(-28, 3),
     city |-> Str("Cupertino"), state |-> Str("CA"), country |-> Str("United States")]

\* no longName: the profile keeps the identifier as its company name
AutomotiveInfo ==
    [marketCap |-> PyInt(780, 400000000), sector |-> Str("Automotive"),
     industry |-> Str("Auto Manufacturers"), country |-> Str("United States")]

\* what the provider gives for a symbol it does not know
EmptyInfo == <<>>

\* the provider reports an unbounded ratio as the string 'Infinity'
InfinityPEInfo ==
    [longName |-> Str("Rivian Automotive, Inc."), sector |-> Str("Consumer Cyclical"),
     trailingPE |-> Str("Infinity")]

\* a field holding an object json cannot serialize
TimestampInfo ==
    [longName |-> Str("Ford Motor Company"), sector |-> Str("Automotive"), website |-> Obj]

\* the provider does not answer
ProviderFailures == {YfRaise("HTTP Error 404: Not Found")}

\* the provider answers with numbers, texts and nothing else
ProviderAnswers == {YfInfo(AppleInfo), YfInfo(AutomotiveInfo), YfInfo(EmptyInfo)}

\* the provider answers with a value the formatting or the serialization rejects
ProviderOddAnswers == {YfInfo(InfinityPEInfo), YfInfo(TimestampInfo)}

ProviderOutcomes == ProviderFailures \cup ProviderAnswers \cup ProviderOddAnswers

\* a page text of n characters (n >= 5) whose last characters are "[END]"
Page(n) == Prefix(Rep("Lorem ipsum dolor sit amet. ", (n \div 28) + 1), n - 5) \o "[END]"

FetchOutcomes ==
    {FetchRaise("Connection refused"), FetchExtract(Str(Page(MinContentLen))),
     FetchExtract(Str(Page(MaxContentLen + 500)))}

(***************************************************************************)
(* analyze_company, one action per stage.  Every action takes the set of   *)
(* answers its collaborator may give.                                      *)
(***************************************************************************)
HfCall(prompt, max_tokens, resp) ==
    [api |-> "hf", arg |-> prompt, max_tokens |-> max_tokens, resp |-> resp]
YfCall(ticker, out) == [api |-> "yf", arg |-> ticker, max_tokens |-> 0, resp |-> out]
WebCall(url, fetch) == [api |-> "web", arg |-> url, max_tokens |-> 0, resp |-> fetch]

InitLocals ==
    /\ company_name = ""
    /\ is_followup = FALSE
    /\ financial_data = <<>>
    /\ web_content = ""
    /\ competitor_analysis = ""
    /\ formatted_financials = <<>>
    /\ ai_analysis = ""
    /\ error = <<>>
    /\ result = <<>>
    /\ calls = <<>>

\* analyze_company is called, on a new engine, with a query of Q and a history of H
InitWith(Q, H) ==
    /\ query \in Q
    /\ chat_history \in H
    /\ pc = "start"
    /\ InitLocals
    /\ runs = 0
    /\ prev = <<>>

Init == InitWith(Queries, Histories)

\* lines 234-237
followup(q, h) == Len(h) > 0 /\ \E k \in FollowupKeywords : Contains(Lower(q), k)

\* lines 231-237
ExtractName(R) ==
    /\ pc = "start"
    /\ \E resp \in R : \E r \in {extract_company_name(query, resp)} :
        /\ calls' = Append(calls, HfCall(name_prompt(query), 20, resp))
        /\ IF r.exc
           THEN /\ error' = <<r.msg>>
                /\ pc' = "handler"
                /\ UNCHANGED <<company_name, is_followup>>
           ELSE /\ company_name' = r.val
                /\ is_followup' = followup(query, chat_history)
                /\ pc' = "name_resolved"
                /\ error' = error
    /\ UNCHANGED <<query, chat_history, financial_data, web_content, competitor_analysis,
                   formatted_financials, ai_analysis, result, runs, prev>>

\* line 240
GetFinancial(P) ==
    /\ pc = "name_resolved"
    /\ \E out \in P : \E r \in {get_financial_data(company_name, out)} :
        /\ calls' = Append(calls, YfCall(resolve_ticker(company_name), out))
        /\ IF r.exc
           THEN error' = <<r.msg>> /\ pc' = "handler" /\ financial_data' = financial_data
           ELSE financial_data' = r.val /\ pc' = "financial_fetched" /\ error' = error
    /\ UNCHANGED <<query, chat_history, company_name, is_followup, web_content,
                   competitor_analysis, formatted_financials, ai_analysis, result, runs, prev>>

\* line 243
ScrapeWeb(F) ==
    /\ pc = "financial_fetched"
    /\ \E fetch \in F : \E r \in {scrape_company_info(company_name, fetch)} :
        /\ calls' = Append(calls, WebCall(wiki_url(company_name), fetch))
        /\ IF r.exc
           THEN error' = <<r.msg>> /\ pc' = "handler" /\ web_content' = web_content
           ELSE web_content' = r.val /\ pc' = "web_fetched" /\ error' = error
    /\ UNCHANGED <<query, chat_history, company_name, is_followup, financial_data,
                   competitor_analysis, formatted_financials, ai_analysis, result, runs, prev>>

\* line 246
AnalyzeCompetitors(R) ==
    /\ pc = "web_fetched"
    /\ \E resp \in R : \E r \in {generate_competitor_analysis(financial_data, resp)} :
        /\ calls' = Append(calls, HfCall(competitor_prompt(financial_data), 600, resp))
        /\ IF r.exc
           THEN error' = <<r.msg>> /\ pc' = "handler"
                  /\ competitor_analysis' = competitor_analysis
           ELSE competitor_analysis' = r.val /\ pc' = "competitors_analyzed"
                  /\ error' = error
    /\ UNCHANGED <<query, chat_history, company_name, is_followup, financial_data, web_content,
                   formatted_financials, ai_analysis, result, runs, prev>>

\* lines 249-275: the context, the prompt and the AI call
Synthesize(R) ==
    /\ pc = "competitors_analyzed"
    /\ \E js \in {json_dumps_profile(financial_data)} :
        IF js.exc
        THEN /\ error' = <<js.msg>>
             /\ pc' = "handler"
             /\ UNCHANGED <<calls, ai_analysis>>
        ELSE \E resp \in R : \E ai \in {query_hf_model(resp)} :
             /\ calls' = Append(calls,
                                HfCall(analysis_prompt(company_name, js.val, web_content,
                                                       competitor_analysis, query,
                                                       json_dumps_history(chat_history)),
                                       1200, resp))
             /\ IF ai.exc
                THEN error' = <<ai.msg>> /\ pc' = "handler" /\ ai_analysis' = ai_analysis
                ELSE /\ ai_analysis' = ai.val
                     /\ pc' = IF ai.val = "" THEN "ai_silent" ELSE "synthesized"
                     /\ error' = error
    /\ UNCHANGED <<query, chat_history, company_name, is_followup, financial_data, web_content,
                   competitor_analysis, formatted_financials, result, runs, prev>>

\* lines 277-279: the templated analysis, when the AI gave nothing
Fallback ==
    /\ pc = "ai_silent"
    /\ \E r \in {generate_structured_analysis(company_name, financial_data,
                                              competitor_analysis, web_content, runs)} :
        IF r.exc
        THEN /\ error' = <<r.msg>>
             /\ pc' = "handler"
             /\ UNCHANGED <<ai_analysis, formatted_financials>>
        ELSE /\ ai_analysis' = r.val
             /\ formatted_financials' = <<format_financial_data(financial_data).val>>
             /\ pc' = "synthesized"
             /\ error' = error
    /\ UNCHANGED <<query, chat_history, company_name, is_followup, financial_data, web_content,
                   competitor_analysis, result, calls, runs, prev>>

\* lines 282-287
Respond ==
    /\ pc = "synthesized"
    /\ result' = <<final_response(company_name, financial_data, ai_analysis)>>
    /\ pc' = "done"
    /\ runs' = runs + 1
    /\ UNCHANGED <<query, chat_history, company_name, is_followup, financial_data, web_content,
                   competitor_analysis, formatted_financials, ai_analysis, error, calls, prev>>

\* lines 289-313; "raised" is the call ending with an exception
HandleError(R) ==
    /\ pc = "handler"
    /\ \E resp \in R : \E r \in {outer_except(query, resp, error[1])} :
        /\ calls' = Append(calls, HfCall(name_prompt(query), 20, resp))
        /\ IF r.exc
           THEN pc' = "raised" /\ result' = result
           ELSE pc' = "done" /\ result' = <<r.val>>
    /\ runs' = runs + 1
    /\ UNCHANGED <<query, chat_history, company_name, is_followup, financial_data, web_content,
                   competitor_analysis, formatted_financials, ai_analysis, error, prev>>

Next ==
    \/ ExtractName(HfNameResponses)
    \/ GetFinancial(ProviderOutcomes)
    \/ ScrapeWeb(FetchOutcomes)
    \/ AnalyzeCompetitors(HfCompetitorResponses)
    \/ Synthesize(HfAnalysisResponses)
    \/ Fallback
    \/ Respond
    \/ HandleError(HfNameResponses)

Spec == Init /\ [][Next]_vars

(***************************************************************************)
(* The stages on inputs chosen for one function each.  Every run starts    *)
(* where analyze_company starts; the AI's answer to the name prompt brings *)
(* the identifier wanted.                                                  *)
(***************************************************************************)
ExtractQueries ==
    {"Tell me about Apple", "Analyze Tesla's market position", "hello", "",
     "analyze Microsoft Corp", "research General Motors Corp",
     "What about Tesla and Ford's plans", "Who are Microsoft's competitors?",
     "ABOUT tesla?", "Acme Corp's outlook", "about Inc", "Research Nvidia Corporation now"}

HfExtractResponses ==
    {HfRaise, HfStatus(503), HfBadJson, HfErrorObject, HfEmptyList, HfNoText,
     HfText("   "), HfText(" Tesla \n"), HfText("Unknown Company"),
     HfText("  " \o Rep("A", 49) \o "\n"), HfText(Rep("A", 50))}

NextExtract == ExtractName(HfExtractResponses)

SpecExtract == InitWith(ExtractQueries, {<<>>}) /\ [][NextExtract]_vars

\* the AI names the company
HfNames(names) == {HfText(n) : n \in names}

Identifiers ==
    {"tesla", "Tesla", "TESLA", "tEsLa", "apple", "Apple", "general motors", "General Motors",
     "GENERAL MOTORS", "IBM", "ibm", "Unknown Company", "Meta", "facebook", "Alphabet",
     "ford", "F", "Netflix", "nvidia", "Rivian Automotive"}

NextFinancial ==
    \/ ExtractName(HfNames(Identifiers))
    \/ GetFinancial(ProviderOutcomes)

SpecFinancial == InitWith({"hello"}, {<<>>}) /\ [][NextFinancial]_vars

ScrapeNames ==
    {"Apple", "General Motors", "Unknown Company", "Tesla", "J P Morgan Chase", "IBM",
     "Rivian Automotive", "meta"}

PageLengths == {5, 50, 99, 100, 101, 102, 1000, 1999, 2000, 2001, 2002, 2500}

ScrapeOutcomes ==
    {FetchRaise("Connection refused"), FetchNothing, FetchExtract(None), FetchExtract(Str(""))}
      \cup {FetchExtract(Str(Page(n))) : n \in PageLengths}

NextScrape ==
    \/ ExtractName(HfNames(ScrapeNames))
    \/ GetFinancial(ProviderFailures)
    \/ ScrapeWeb(ScrapeOutcomes)

SpecScrape == InitWith({"hello"}, {<<>>}) /\ [][NextScrape]_vars

\* answers of the provider that differ in the fields format_financial_data reads
FormatInfos ==
    {[marketCap |-> mc, totalRevenue |-> rev, trailingPE |-> pe, fullTimeEmployees |-> emp,
      city |-> city, currentPrice |-> PyFloat(18984, 2), profitMargins |-> PyFloat(2531, 4)] :
        mc \in {None, PyInt(0, 0), PyInt(3, 0), PyInt(2, 960000000)},
        rev \in {None, PyInt(383, 285000000)},
        pe \in {None, PyFloat(285, 1)},
        emp \in {None, PyInt(0, 164000)},
        city \in {Str(""), Str("Cupertino")}}

FormatOutcomes == ProviderFailures \cup ProviderAnswers \cup {YfInfo(i) : i \in FormatInfos}

NextFormat ==
    \/ ExtractName({HfRaise})
    \/ GetFinancial(FormatOutcomes)
    \/ ScrapeWeb({FetchNothing})
    \/ AnalyzeCompetitors({HfRaise})
    \/ Synthesize({HfRaise})
    \/ Fallback

SpecFormat == InitWith({"Tell me about Apple"}, {<<>>}) /\ [][NextFormat]_vars

\* src/app.py line 67: the engine of the session serves the next call; here
\* the call repeats the query and the history
Recall ==
    /\ pc = "done"
    /\ runs < MaxRuns
    /\ prev' = <<[calls |-> calls, result |-> result[1]]>>
    /\ pc' = "start"
    /\ company_name' = ""
    /\ is_followup' = FALSE
    /\ financial_data' = <<>>
    /\ web_content' = ""
    /\ competitor_analysis' = ""
    /\ formatted_financials' = <<>>
    /\ ai_analysis' = ""
    /\ error' = <<>>
    /\ result' = <<>>
    /\ calls' = <<>>
    /\ UNCHANGED <<query, chat_history, runs>>

TwiceProvider == ProviderFailures \cup {YfInfo(AppleInfo)}

TwiceFetch == {FetchNothing, FetchExtract(Str(Page(MinContentLen + 1)))}

NextTwice ==
    \/ ExtractName({HfRaise})
    \/ GetFinancial(TwiceProvider)
    \/ ScrapeWeb(TwiceFetch)
    \/ AnalyzeCompetitors({HfRaise})
    \/ Synthesize({HfRaise})
    \/ Fallback
    \/ Respond
    \/ Recall

SpecTwice == InitWith(Queries, {<<>>}) /\ [][NextTwice]_vars

(***************************************************************************)
(* What the properties read off a state.                                   *)
(***************************************************************************)
\* the string analyze_company returned
Report == result[1]

\* the answer the collaborator gave to the i-th call
Answer(i) == calls[i].resp

\* the answers of all the calls made
Answers(cs) == [i \in 1..Len(cs) |-> cs[i].resp]

\* the call returned through the outer except clause
ThroughHandler == pc = "done" /\ error # <<>>

\* the call returned from the end of the try block
ThroughTry == pc = "done" /\ error = <<>>

\* s up to its first line break
FirstLine(s) ==
    IF \E i \in 1..Len(s) : Ch(s, i) = "\n"
    THEN SubSeq(s, 1, Min({i \in 1..Len(s) : Ch(s, i) = "\n"}) - 1)
    ELSE s

\* what follows the first marker in s, up to the end of its line; "" without marker
LineAfter(s, marker) ==
    IF Contains(s, marker) /\ marker # ""
    THEN FirstLine(SubSeq(s, Min({i \in 1..(Len(s) - Len(marker) + 1) :
                                     Ch(s, i) = Ch(marker, 1)
                                       /\ SubSeq(s, i, i + Len(marker) - 1) = marker})
                                + Len(marker), Len(s)))
    ELSE ""

\* s.split(', ')
RECURSIVE SplitCommas(_)
SplitCommas(s) ==
    IF Contains(s, ", ")
    THEN <<SubSeq(s, 1, Min({i \in 1..(Len(s) - 1) : SubSeq(s, i, i + 1) = ", "}) - 1)>>
           \o SplitCommas(SubSeq(s, Min({i \in 1..(Len(s) - 1) : SubSeq(s, i, i + 1) = ", "}) + 2, Len(s)))
    ELSE <<s>>

\* the name the heading of the report carries
HeadingName ==
    IF "error" \in DOMAIN financial_data THEN company_name
    ELSE PyStr(financial_data["company_name"])

Position(p) ==
    CASE p = "start" -> 0
      [] p = "name_resolved" -> 1
      [] p = "financial_fetched" -> 2
      [] p = "web_fetched" -> 3
      [] p = "competitors_analyzed" -> 4
      [] p = "ai_silent" -> 5
      [] p = "synthesized" -> 6
      [] p = "handler" -> 7
      [] p = "done" -> 8
      [] p = "raised" -> 9

\* C2: analyze_company never propagates an exception: whichever stage fails,
\* and even if the name extraction the outer handler attempts again fails,
\* the call never ends with an exception, every step takes it further towards
\* its end, and where it has ended it has returned a string.
C2_NeverPropagates ==
    /\ [](/\ pc # "raised"
          /\ pc = "done" => Len(result) = 1 /\ Report \in STRING
          /\ pc # "done" => result = <<>>)
    /\ [][Position(pc') > Position(pc)]_vars

\* C2's case: the outer handler caught an exception, the AI call of its own
\* name extraction failed, and the call returned
C2_HandlerExtractionFailed ==
    /\ ThroughHandler
    /\ Answer(Len(calls)) = HfRaise
    /\ calls[Len(calls)].arg = name_prompt(query)
    /\ Len(calls) > 1
    /\ Len(result) = 1

(***************************************************************************)
(* C3.                                                                     *)
(***************************************************************************)
MandatoryHeadings ==
    {"Company Overview", "Financial Highlights", "Key Competitors",
     "Investment Considerations", "PE Relevance"}

\* C3, as stated, on the path the code decides alone (the AI gives no
\* analysis): when the provider failed and the profile carries 'error', the
\* report holds the five mandatory headings and a notice that the financial
\* data could not be retrieved, and no figure in dollars.
C3_FiveHeadingsOnProviderFailure ==
    (ThroughTry /\ "error" \in DOMAIN financial_data /\ formatted_financials # <<>>) =>
        /\ \A h \in MandatoryHeadings : Contains(Report, h)
        /\ Contains(Report, "Could not retrieve financial data")
        /\ ~Contains(Report, "$")

(***************************************************************************)
(* C4.                                                                     *)
(***************************************************************************)
\* the names on the "Key Competitors" line of the competitor analysis
KeyCompetitors == SplitCommas(LineAfter(competitor_analysis, "**Key Competitors:** "))

\* C4, as stated: with the AI backend unavailable, the competitor analysis of
\* a profile whose sector is a key of the sector table lists at least one and
\* at most five names of that sector, none of them the company the pipeline
\* resolved, compared without regard to case; for a sector without an entry
\* the text says 'Analysis requires additional research'.
C4_SubjectNotListed ==
    (pc = "competitors_analyzed" /\ Answer(4) \in HfUnavailable
       /\ "error" \notin DOMAIN financial_data) =>
        IF potential_competitors(financial_data["sector"]) # <<>>
        THEN /\ Len(KeyCompetitors) \in 1..5
             /\ \A i \in 1..Len(KeyCompetitors) :
                  /\ \E j \in 1..Len(potential_competitors(financial_data["sector"])) :
                        KeyCompetitors[i] = potential_competitors(financial_data["sector"])[j]
                  /\ Lower(KeyCompetitors[i]) # Lower(company_name)
        ELSE KeyCompetitors = <<"Analysis requires additional research">>

(***************************************************************************)
(* C5.                                                                     *)
(***************************************************************************)
\* the text the AI call gave: the stripped generated_text of a 200 answer
\* that is a non-empty list, "" in every other case
AiText(resp) ==
    IF resp.kind = "http" /\ resp.status = 200 /\ resp.json = "list"
         /\ Len(resp.items) > 0 /\ Len(resp.items[1]) > 0
    THEN Strip(resp.items[1][1])
    ELSE ""

\* the AI's result is used: not empty and shorter than 50 characters
AiResultUsed == AiText(Answer(1)) # "" /\ Len(AiText(Answer(1))) < 50

\* the patterns in their priority: about, X's, analyze, tell me about, research
MatchingPatterns == {n \in 1..5 : PatternSearch(query, n) # <<>>}

\* the ladder of extract_company_name, short of its last rung
C5_Ladder ==
    /\ pc \in {"start", "name_resolved"}
    /\ pc = "name_resolved" =>
        /\ AiResultUsed => company_name = AiText(Answer(1))
        /\ (~AiResultUsed /\ MatchingPatterns # {}) =>
              company_name = CleanCompany(PatternSearch(query, Min(MatchingPatterns))[1])
        /\ (~AiResultUsed /\ query = "Tell me about Apple") =>
              company_name = "Apple" /\ Min(MatchingPatterns) = 1

\* C5, as stated: extract_company_name never raises; it returns the AI's
\* result only when the AI call gave a non-empty result shorter than 50
\* characters; otherwise the trimmed, suffix-stripped group of the first
\* pattern that matches in the order about / X's / analyze / tell me about /
\* research ('Tell me about Apple' gives 'Apple'); and it returns 'Unknown
\* Company' exactly when the AI's result is not used and no pattern matches.
C5_UnknownExactlyWhenNothingFound ==
    /\ C5_Ladder
    /\ pc = "name_resolved" =>
        (company_name = "Unknown Company" <=> (~AiResultUsed /\ MatchingPatterns = {}))

\* C5, amended: as stated, except for the last rung: 'Unknown Company' is
\* returned whenever the AI's result is not used and no pattern matches, and
\* apart from that only when the AI's own result is 'Unknown Company'.
C5_UnknownWhenNothingFound ==
    /\ C5_Ladder
    /\ pc = "name_resolved" =>
        /\ (~AiResultUsed /\ MatchingPatterns = {}) => company_name = "Unknown Company"
        /\ company_name = "Unknown Company" =>
              \/ ~AiResultUsed /\ MatchingPatterns = {}
              \/ AiText(Answer(1)) = "Unknown Company"

\* C5's case: the AI names the company 'Unknown Company' for a query in
\* which a pattern matches
C5_AiSaysUnknown ==
    /\ pc = "name_resolved"
    /\ AiResultUsed
    /\ MatchingPatterns # {}
    /\ company_name = "Unknown Company"

(***************************************************************************)
(* C6.                                                                     *)
(***************************************************************************)
\* the ticker asked of the provider
TickerAsked == calls[2].arg

\* C6: get_financial_data takes the ticker from the name-to-ticker table
\* whenever the lower-cased identifier is a key of it, whatever the case of
\* the identifier ('tesla', 'Tesla', 'TESLA' give 'TSLA'), and otherwise asks
\* for the upper-cased identifier; an exception of the provider is not
\* propagated and gives a profile whose only field is 'error'.
C6_TickerFromTable ==
    /\ pc # "handler"
    /\ pc = "financial_fetched" =>
        /\ Lower(company_name) \in DOMAIN ticker_map =>
              TickerAsked = ticker_map[Lower(company_name)]
        /\ Lower(company_name) \notin DOMAIN ticker_map => TickerAsked = Upper(company_name)
        /\ company_name \in {"tesla", "Tesla", "TESLA", "tEsLa"} => TickerAsked = "TSLA"
        /\ company_name \in {"IBM", "ibm"} => TickerAsked = "IBM"
        /\ Answer(2).kind = "raise" =>
              /\ DOMAIN financial_data = {"error"}
              /\ StartsWith(financial_data["error"].s, "Could not retrieve financial data: ")
        /\ Answer(2).kind = "info" =>
              /\ "error" \notin DOMAIN financial_data
              /\ financial_data["ticker"] = Str(TickerAsked)

\* C6's case: the identifier in a case the table does not spell, resolved
\* through the table
C6_UpperCaseIdentifier ==
    /\ pc = "financial_fetched"
    /\ company_name = "TESLA"
    /\ TickerAsked = "TSLA"
    /\ Answer(2).kind = "raise"
    /\ DOMAIN financial_data = {"error"}

(***************************************************************************)
(* C7.                                                                     *)
(***************************************************************************)
\* the fields format_financial_data renders, each with the label of its line
BulletLabels ==
    [market_cap |-> "Market Cap", revenue |-> "Annual Revenue", current_price |-> "Stock Price",
     pe_ratio |-> "P/E Ratio", profit_margin |-> "Profit Margin", employees |-> "Employees",
     headquarters |-> "Headquarters"]

\* the number of lines of s that begin with "- "
BulletCount(s) ==
    Cardinality({i \in 1..(Len(s) - 1) :
                    SubSeq(s, i, i + 1) = "- " /\ (i = 1 \/ Ch(s, i - 1) = "\n")})

\* C7: format_financial_data renders a line for a field only if the profile
\* holds a value for it, and nothing in place of a missing one; a market cap
\* of 3000000000 is rendered 'Market Cap: $3.0B'; a profile carrying 'error'
\* renders the error line and no bullet.
C7_BulletsOnlyForPresentFields ==
    formatted_financials # <<>> =>
        IF "error" \in DOMAIN financial_data
        THEN /\ formatted_financials[1] = "**Financial Data:** " \o financial_data["error"].s
             /\ BulletCount(formatted_financials[1]) = 0
        ELSE /\ \A f \in DOMAIN BulletLabels :
                  Contains(formatted_financials[1], "- " \o BulletLabels[f] \o ": ") =>
                      financial_data[f] \notin {None, Str("")}
             /\ BulletCount(formatted_financials[1])
                  = Cardinality({f \in DOMAIN BulletLabels :
                                    Contains(formatted_financials[1], "- " \o BulletLabels[f] \o ": ")})
             /\ ~Contains(formatted_financials[1], "N/A")
             /\ ~Contains(formatted_financials[1], "None")
             /\ financial_data["market_cap"] = PyInt(3, 0) =>
                  Contains(formatted_financials[1], "\n- Market Cap: $3.0B\n")

\* C7's case: a market cap of 3000000000 rendered, next to fields without value
C7_ThreeBillionRendered ==
    /\ formatted_financials # <<>>
    /\ "error" \notin DOMAIN financial_data
    /\ financial_data["market_cap"] = PyInt(3, 0)
    /\ financial_data["pe_ratio"] = None
    /\ Contains(formatted_financials[1], "- Market Cap: $3.0B\n")
    /\ ~Contains(formatted_financials[1], "P/E Ratio")

(***************************************************************************)
(* C8.                                                                     *)
(***************************************************************************)
\* the page text the fetcher extracted, "" when it extracted none
PageText(fetch) ==
    IF fetch.kind = "extract" /\ fetch.val.t = "str" THEN fetch.val.s ELSE ""

\* C8: scrape_company_info never raises; it returns page content only when
\* the text is longer than 100 characters, and then at most its first 2000
\* characters; when the fetch fails, gives nothing or gives 100 characters or
\* fewer, it returns the 'No additional web content found.' sentinel.
C8_ContentOnlyAboveThreshold ==
    /\ pc # "handler"
    /\ pc = "web_fetched" =>
        IF Len(PageText(Answer(3))) > 100
        THEN /\ web_content = "\n\nSource: " \o calls[3].arg \o "\n"
                                \o SubSeq(PageText(Answer(3)), 1,
                                          Min({2000, Len(PageText(Answer(3)))}))
                                \o "..."
             /\ Len(PageText(Answer(3))) > 2000 => ~Contains(web_content, "[END]")
        ELSE web_content = "No additional web content found."

\* C8's case: a page of exactly 100 characters, replaced by the sentinel
C8_HundredCharactersDropped ==
    /\ pc = "web_fetched"
    /\ Len(PageText(Answer(3))) = 100
    /\ web_content = "No additional web content found."

StageCalls ==
    << [api |-> "hf", max_tokens |-> 20], [api |-> "yf", max_tokens |-> 0],
       [api |-> "web", max_tokens |-> 0], [api |-> "hf", max_tokens |-> 600],
       [api |-> "hf", max_tokens |-> 1200] >>

\* the calls the stages made: all but the one the outer handler made
StageCallsMade == IF ThroughHandler THEN SubSeq(calls, 1, Len(calls) - 1) ELSE calls

\* the stages ran in order, each once, as far as the call has come
StagesInOrder ==
    /\ Len(StageCallsMade) <= Len(StageCalls)
    /\ \A i \in 1..Len(StageCallsMade) :
          /\ calls[i].api = StageCalls[i].api
          /\ calls[i].max_tokens = StageCalls[i].max_tokens
    /\ pc \in {"start", "name_resolved", "financial_fetched", "web_fetched",
               "competitors_analyzed"} => Len(calls) = Position(pc)
    /\ pc \in {"ai_silent", "synthesized"} => Len(calls) = Len(StageCalls)
    /\ ThroughTry => Len(calls) = Len(StageCalls)

\* C10, as stated: the stages run in the order name resolution, financial
\* fetch, web fetch, competitor analysis, synthesis, each once; whichever of
\* the collaborators fail, the failure is absorbed where it occurs, and the
\* call ends with the titled report, never with the 'Analysis Error' report.
C10_NeverOuterBoundary ==
    /\ StagesInOrder
    /\ pc # "handler"
    /\ pc = "done" => StartsWith(Report, "# ") /\ ~Contains(Report, "**Analysis Error**")

\* C10, amended: the stages run in that order, each once.  A collaborator
\* that fails (the AI backend, the provider or the fetcher raising or giving
\* nothing) is absorbed where it occurs, and the call ends with the titled
\* report whenever the provider failed or answered with numbers and texts.
\* The outer boundary is reached, and the 'Analysis Error' report returned,
\* only after the provider answered with a value that the serialization of
\* the context or the formatting of the fallback rejects.
C10_AbsorbedUnlessOddAnswer ==
    /\ StagesInOrder
    /\ (Len(calls) >= 2 /\ Answer(2) \notin ProviderOddAnswers) =>
          /\ pc # "handler"
          /\ error = <<>>
          /\ pc = "done" =>
                StartsWith(Report, "# ") /\ ~Contains(Report, "**Analysis Error**")
    /\ error # <<>> => Len(calls) >= 2 /\ Answer(2) \in ProviderOddAnswers

\* C10's case: the three collaborators all failed and the call returned
C10_AllCollaboratorsFailed ==
    /\ pc = "done"
    /\ Len(calls) = 5
    /\ \A i \in {1, 4, 5} : Answer(i) \in HfUnavailable
    /\ Answer(2).kind = "raise"
    /\ Answer(3).kind = "raise"
    /\ StartsWith(Report, "# ")


(***************************************************************************)
(* C11.                                                                    *)
(***************************************************************************)
\* the value the profile holds for field k: None when the key is missing and
\* when the key is there with the value None
ProfileField(k) == Get(financial_data, k, None)

\* the text that stands for a field: the generic word when the field is
\* absent, the field's own text otherwise
PlaceholderOr(v, generic) == IF v = None THEN generic ELSE PyStr(v)

\* the prompt of the competitor analysis has been sent
CompetitorPromptSent == Len(calls) >= 4 /\ calls[4].max_tokens = 600

\* the competitor analysis is the templated one: the AI gave no text
BasicCompetitorText ==
    /\ CompetitorPromptSent
    /\ Answer(4) \in HfUnavailable
    /\ StartsWith(competitor_analysis, "**Competitive Analysis for ")

\* the sentence of the fallback's Company Overview
OverviewSentence == LineAfter(ai_analysis, "## Company Overview\n")

\* C11, as stated: whenever the sector, the industry or the company name is
\* absent from the profile, a profile the provider returned without a sector
\* or an industry included, the competitor analysis (its prompt and its
\* templated text) and the Company Overview of the fallback carry a generic
\* placeholder ('Unknown', 'various', 'multiple industries') in its place
\* and never the text of the absent value, 'None'.
C11_AbsentFieldsGetPlaceholder ==
    /\ CompetitorPromptSent =>
          calls[4].arg =
              competitor_prompt_text(PlaceholderOr(ProfileField("company_name"), "Unknown"),
                                     PlaceholderOr(ProfileField("sector"), "Unknown"),
                                     PlaceholderOr(ProfileField("industry"), "Unknown"))
    /\ BasicCompetitorText =>
          /\ LineAfter(competitor_analysis, "**Sector:** ")
                = PlaceholderOr(ProfileField("sector"), "Unknown")
          /\ LineAfter(competitor_analysis, "**Industry:** ")
                = PlaceholderOr(ProfileField("industry"), "Unknown")
    /\ formatted_financials # <<>> =>
          OverviewSentence =
              company_name \o " is a company operating in the "
                \o PlaceholderOr(ProfileField("sector"), "various")
                \o " sector, specifically in the "
                \o PlaceholderOr(ProfileField("industry"), "multiple industries")
                \o " space."

(***************************************************************************)
(* C12.                                                                    *)
(***************************************************************************)
\* the heading line of the report of a call whose profile carries 'error'
\* (line 285): the identifier is the name the heading shows
HeadingOf(name) == FirstLine(final_response(name, [error |-> Str("")], ""))

\* C12, as stated: the identifier extract_company_name returns is a
\* non-empty string for every query, those whose captured group holds only
\* corporate-suffix words ('about Inc') included, so that the ticker, the
\* reference URL and the heading of the report are never built from an
\* empty name.
C12_IdentifierNeverEmpty ==
    pc = "name_resolved" =>
        /\ company_name # ""
        /\ resolve_ticker(company_name) # ""
        /\ wiki_url(company_name) # "https://en.wikipedia.org/wiki/"
        /\ HeadingOf(company_name) # "#  - PE Research Analysis"

====
